---------------------------- MODULE Spec2Model ----------------------------
(***************************************************************************)
(* Shader specialization keys (src/src/shader_recompiler/specialization.h). *)
(*                                                                         *)
(* A StageSpecialization is built from a descriptor provider (Shader::Info),*)
(* the runtime configuration, a capability profile and the start bindings,  *)
(* and is compared with operator== by the permutation cache:                *)
(* candidate == cached, gated on the cached key's bitset.                   *)
(*                                                                         *)
(* The state holds one cached key, one candidate key, the hardware records  *)
(* ("sharps") each was built from, and the outcome of the last comparison.  *)
(***************************************************************************)
EXTENDS Integers, Sequences, FiniteSets, TLC

(***************************************************************************)
(* Bounds of the model.                                                    *)
(***************************************************************************)
\* descriptors (buffers, texture buffers, images, fmasks, samplers and
\* fetch-shader attributes together) of a small provider
MaxDescs == 2
\* how many of the scalar inputs of one Build (read-constant presence, start
\* bindings, runtime configuration, fetch-shader variant, tessellation
\* constants) differ from their first value
MaxVaried == 1
\* a provider near the bitset capacity lacks at most this many slots
CapSlack == 1

(***************************************************************************)
(* Program constants.                                                      *)
(***************************************************************************)
\* static constexpr size_t MaxStageResources = 64;
MaxStageResources == 64
\* u16 stride : 14;
StrideBits == 14

\* an absent value: a descriptor that did not resolve, an empty optional
Null == [null |-> TRUE]
\* no key built yet
NoSpec == [nospec |-> TRUE]

(***************************************************************************)
(* Hardware descriptor records (sharps) and what the builder reads of them. *)
(***************************************************************************)
\* AmdGpu::GetNumberClass
GetNumberClass(fmt) ==
    CASE fmt = "Sint" -> "Sint"
      [] fmt = "Uint" -> "Uint"
      [] OTHER -> "Float"

\* AmdGpu::IsInteger
IsInteger(fmt) == fmt \in {"Sint", "Uint"}

\* AmdGpu::CompMapping{}: the identity mapping
DefaultMapping == "RGBA"

\* a buffer sharp as the builder sees it: GetStride(), GetSize(), and what
\* desc.IsStorage(sharp) answers for the descriptor it resolves
BufferSharps ==
    { [stride |-> 16, size |-> 1024, storage |-> FALSE],
      [stride |-> 32, size |-> 1024, storage |-> FALSE],
      [stride |-> 16, size |-> 0,    storage |-> FALSE],
      [stride |-> 16, size |-> 1024, storage |-> TRUE] }

\* a texture-buffer sharp: GetNumberFmt(), DstSelect(), GetNumberConversion()
TexBufferSharps ==
    { [fmt |-> "Unorm", dst_select |-> "RGBA", num_conversion |-> 0],
      [fmt |-> "Sint",  dst_select |-> "RGBA", num_conversion |-> 0],
      [fmt |-> "Unorm", dst_select |-> "BGRA", num_conversion |-> 1] }

\* an image sharp: GetBoundType(), GetNumberFmt(), DstSelect(),
\* GetNumberConversion(), and what desc.IsStorage(sharp) answers
ImageSharps ==
    { [type |-> "Color2D", fmt |-> "Unorm", storage |-> s, dst_select |-> m,
       num_conversion |-> 0] : s \in BOOLEAN, m \in {"RGBA", "BGRA"} }
    \cup { [type |-> "Color3D", fmt |-> "Uint", storage |-> FALSE,
            dst_select |-> "RGBA", num_conversion |-> 0] }

\* an fmask-bearing image sharp: width, height
FMaskSharps == { [width |-> 1, height |-> 1], [width |-> 2, height |-> 1] }

\* a sampler sharp: force_unnormalized
SamplerSharps == { [force_unnormalized |-> f] : f \in BOOLEAN }

\* the buffer sharp of a fetch-shader attribute: GetNumberFmt()
AttribSharps == { [fmt |-> "Unorm"], [fmt |-> "Sint"] }


(***************************************************************************)
(* Per-resource specialization records, as value-initialised by            *)
(* spec_list.emplace_back().                                               *)
(***************************************************************************)
\* struct VsAttribSpecialization { AmdGpu::NumberClass num_class{}; }
DefaultVsAttrib == [num_class |-> "Float"]

\* struct BufferSpecialization { u16 stride : 14; u16 is_storage : 1; u32 size = 0; }
DefaultBuffer == [stride |-> 0, is_storage |-> 0, size |-> 0]

\* struct TextureBufferSpecialization
DefaultTexBuffer ==
    [is_integer |-> FALSE, dst_select |-> DefaultMapping, num_conversion |-> 0]

\* struct ImageSpecialization
DefaultImage ==
    [type |-> "Color2D", is_integer |-> FALSE, is_storage |-> FALSE,
     dst_select |-> DefaultMapping, num_conversion |-> 0]

\* struct FMaskSpecialization { u32 width; u32 height; }
DefaultFMask == [width |-> 0, height |-> 0]

\* struct SamplerSpecialization { bool force_unnormalized = false; }
DefaultSampler == [force_unnormalized |-> FALSE]

\* the record emplace_back() appends to the list of one category
DefaultSpec(kind) ==
    CASE kind = "vs_attrib" -> DefaultVsAttrib
      [] kind = "buffer" -> DefaultBuffer
      [] kind = "tex_buffer" -> DefaultTexBuffer
      [] kind = "image" -> DefaultImage
      [] kind = "fmask" -> DefaultFMask
      [] kind = "sampler" -> DefaultSampler

\* a value stored into the 14-bit field stride
StrideField(v) == v % (2 ^ StrideBits)

\* a bool stored into the 1-bit field is_storage
BitField(b) == IF b THEN 1 ELSE 0

\* the lambda of ForEachSharp(vs_attribs, fetch_shader_data->attributes, ...)
FillVsAttrib(spec, sharp) ==
    [spec EXCEPT !.num_class = GetNumberClass(sharp.fmt)]

\* the lambda of ForEachSharp(binding, buffers, info->buffers, ...)
FillBuffer(spec, sharp) ==
    LET s1 == [spec EXCEPT !.stride = StrideField(sharp.stride),
                           !.is_storage = BitField(sharp.storage)]
    IN  IF s1.is_storage = 0 THEN [s1 EXCEPT !.size = sharp.size] ELSE s1

\* the lambda of ForEachSharp(binding, tex_buffers, info->texture_buffers, ...)
FillTexBuffer(spec, sharp) ==
    [spec EXCEPT !.is_integer = IsInteger(sharp.fmt),
                 !.dst_select = sharp.dst_select,
                 !.num_conversion = sharp.num_conversion]

\* a builder that copies the destination mapping of every image
CopiesMappingAlways(spec) == TRUE

\* whether the image lambda copies the destination mapping
CopiesMapping(spec) == spec.is_storage

\* the lambda of ForEachSharp(binding, images, info->images, ...)
FillImage(spec, sharp) ==
    LET s1 == [spec EXCEPT !.type = sharp.type,
                           !.is_integer = IsInteger(sharp.fmt),
                           !.is_storage = sharp.storage]
        s2 == IF CopiesMapping(s1)
              THEN [s1 EXCEPT !.dst_select = sharp.dst_select] ELSE s1
    IN  [s2 EXCEPT !.num_conversion = sharp.num_conversion]

\* the lambda of ForEachSharp(binding, fmasks, info->fmasks, ...)
FillFMask(spec, sharp) ==
    [spec EXCEPT !.width = sharp.width, !.height = sharp.height]

\* the lambda of ForEachSharp(samplers, info->samplers, ...)
FillSampler(spec, sharp) ==
    [spec EXCEPT !.force_unnormalized = sharp.force_unnormalized]

\* func(spec, desc, sharp) for the category being built
Fill(kind, spec, sharp) ==
    CASE kind = "vs_attrib" -> FillVsAttrib(spec, sharp)
      [] kind = "buffer" -> FillBuffer(spec, sharp)
      [] kind = "tex_buffer" -> FillTexBuffer(spec, sharp)
      [] kind = "image" -> FillImage(spec, sharp)
      [] kind = "fmask" -> FillFMask(spec, sharp)
      [] kind = "sampler" -> FillSampler(spec, sharp)

(***************************************************************************)
(* ForEachSharp.  sharps[i] is what desc.GetSharp answers for the          *)
(* i-th descriptor of the list: a sharp, or Null.                          *)
(***************************************************************************)
\* void ForEachSharp(auto& spec_list, auto& desc_list, auto&& func)
RECURSIVE ForEachSharp(_, _, _, _)
ForEachSharp(kind, spec_list, sharps, i) ==
    IF i > Len(sharps) THEN spec_list
    ELSE LET spec == DefaultSpec(kind)
             sharp == sharps[i]
         IN  IF sharp = Null
             THEN ForEachSharp(kind, Append(spec_list, spec), sharps, i + 1)
             ELSE ForEachSharp(kind, Append(spec_list, Fill(kind, spec, sharp)),
                               sharps, i + 1)

\* a builder that consumes no index for a descriptor that did not resolve
SkipBindingStuck(binding) == binding

\* a builder that consumes two indices for a descriptor that resolved
TakeBindingTwice(binding) == binding + 2

\* binding++ of a descriptor that did not resolve
SkipBinding(binding) == binding + 1

\* binding++ of bitset.set(binding++)
TakeBinding(binding) == binding + 1

\* void ForEachSharp(u32& binding, auto& spec_list, auto& desc_list, auto&& func)
\* st = [binding, bitset, spec_list, thrown]; bitset.set(pos) throws
\* std::out_of_range for pos >= MaxStageResources and the construction ends
RECURSIVE ForEachSharpBinding(_, _, _, _)
ForEachSharpBinding(kind, st, sharps, i) ==
    IF st.thrown \/ i > Len(sharps) THEN st
    ELSE LET spec == DefaultSpec(kind)
             sharp == sharps[i]
             list == Append(st.spec_list, spec)
         IN  IF sharp = Null
             THEN ForEachSharpBinding(kind,
                      [st EXCEPT !.spec_list = list,
                                 !.binding = SkipBinding(st.binding)],
                      sharps, i + 1)
             ELSE IF st.binding >= MaxStageResources
             THEN [st EXCEPT !.spec_list = list, !.thrown = TRUE]
             ELSE ForEachSharpBinding(kind,
                      [st EXCEPT !.spec_list = Append(st.spec_list, Fill(kind, spec, sharp)),
                                 !.bitset = st.bitset \cup {st.binding},
                                 !.binding = TakeBinding(st.binding)],
                      sharps, i + 1)

\* the next category starts with an empty list of its own
NextList(st) == [st EXCEPT !.spec_list = << >>]

(***************************************************************************)
(* The collaborators of the builder.                                       *)
(***************************************************************************)
\* Gcn::ParseFetchShader(info_): absent without a fetch shader
ParseFetchShader(info) == info.fetch

\* hs_info / vs_info .InitFromTessConstants(tess_constants)
InitFromTessConstants(tess_constants) == [from_constants |-> tess_constants]

\* the tessellation sub-records of a RuntimeInfo before the tessellation
\* passes have run
NoTessInfo == [from_constants |-> "none"]

(***************************************************************************)
(* explicit StageSpecialization(const Info&, RuntimeInfo, const Profile&,   *)
(*                              Backend::Bindings)                          *)
(***************************************************************************)
\* u32 binding{}; if (info->has_readconst) binding++;
FirstBinding(info) == IF info.has_readconst THEN 1 ELSE 0

\* whether the constructor specializes on the vertex input number types
FillsVsAttribs(info, fetch_shader_data, profile) ==
    /\ info.stage = "Vertex"
    /\ fetch_shader_data # Null
    /\ ~profile.support_legacy_vertex_attributes

\* the tessellation step at the end of the constructor
TessRuntimeInfo(info, runtime_info, tess_constants) ==
    IF info.l_stage \in {"TessellationControl", "TessellationEval"}
    THEN IF info.l_stage = "TessellationControl"
         THEN [runtime_info EXCEPT !.hs_info = InitFromTessConstants(tess_constants)]
         ELSE [runtime_info EXCEPT !.vs_info = InitFromTessConstants(tess_constants)]
    ELSE runtime_info

\* the constructor: the built value, and whether bitset.set threw
Build(info, runtime_info, profile, start, sh) ==
    LET fetch_shader_data == ParseFetchShader(info)
        vs_attribs == IF FillsVsAttribs(info, fetch_shader_data, profile)
                      THEN ForEachSharp("vs_attrib", << >>, sh.attribs, 1)
                      ELSE << >>
        s0 == [binding |-> FirstBinding(info), bitset |-> {},
               spec_list |-> << >>, thrown |-> FALSE]
        s1 == ForEachSharpBinding("buffer", s0, sh.buffers, 1)
        s2 == ForEachSharpBinding("tex_buffer", NextList(s1), sh.texture_buffers, 1)
        s3 == ForEachSharpBinding("image", NextList(s2), sh.images, 1)
        s4 == ForEachSharpBinding("fmask", NextList(s3), sh.fmasks, 1)
        samplers == ForEachSharp("sampler", << >>, sh.samplers, 1)
    IN  [thrown |-> s4.thrown,
         spec |-> [info |-> info,
                   runtime_info |-> TessRuntimeInfo(info, runtime_info, sh.tess),
                   fetch_shader_data |-> fetch_shader_data,
                   vs_attribs |-> vs_attribs,
                   bitset |-> s4.bitset,
                   buffers |-> s1.spec_list,
                   tex_buffers |-> s2.spec_list,
                   images |-> s3.spec_list,
                   fmasks |-> s4.spec_list,
                   samplers |-> samplers,
                   start |-> start]]

(***************************************************************************)
(* Per-type equality.                                                      *)
(***************************************************************************)
\* VsAttribSpecialization: auto operator<=>(...) const = default
VsAttribEq(a, b) == a.num_class = b.num_class

\* a buffer equality whose last clause is strict: size > other.is_storage
BufferEqStrictSize(a, other) ==
    /\ a.stride = other.stride
    /\ a.is_storage = other.is_storage
    /\ (a.size > other.is_storage \/ a.is_storage # 0)

\* a buffer equality that compares the sizes of buffers that are not storage
BufferEqSize(a, other) ==
    /\ a.stride = other.stride
    /\ a.is_storage = other.is_storage
    /\ (a.size = other.size \/ a.is_storage # 0)

\* bool BufferSpecialization::operator==(const BufferSpecialization& other)
BufferEq(a, other) ==
    /\ a.stride = other.stride
    /\ a.is_storage = other.is_storage
    /\ (a.size >= other.is_storage \/ a.is_storage # 0)

\* TextureBufferSpecialization: auto operator<=>(...) const = default
TexBufferEq(a, b) ==
    /\ a.is_integer = b.is_integer
    /\ a.dst_select = b.dst_select
    /\ a.num_conversion = b.num_conversion

\* an image equality that leaves the destination mapping out
ImageEqNoMapping(a, b) ==
    /\ a.type = b.type
    /\ a.is_integer = b.is_integer
    /\ a.is_storage = b.is_storage
    /\ a.num_conversion = b.num_conversion

\* ImageSpecialization: auto operator<=>(...) const = default
ImageEq(a, b) ==
    /\ a.type = b.type
    /\ a.is_integer = b.is_integer
    /\ a.is_storage = b.is_storage
    /\ a.dst_select = b.dst_select
    /\ a.num_conversion = b.num_conversion

\* FMaskSpecialization: auto operator<=>(...) const = default
FMaskEq(a, b) == a.width = b.width /\ a.height = b.height

\* SamplerSpecialization: auto operator<=>(...) const = default
SamplerEq(a, b) == a.force_unnormalized = b.force_unnormalized

\* !(x != y) for the records of one category
RecordEq(kind, a, b) ==
    CASE kind = "vs_attrib" -> VsAttribEq(a, b)
      [] kind = "buffer" -> BufferEq(a, b)
      [] kind = "tex_buffer" -> TexBufferEq(a, b)
      [] kind = "image" -> ImageEq(a, b)
      [] kind = "fmask" -> FMaskEq(a, b)
      [] kind = "sampler" -> SamplerEq(a, b)

(***************************************************************************)
(* bool StageSpecialization::operator==(const StageSpecialization& other)   *)
(*                                                                         *)
(* junk holds what the reads the language leaves undefined yield:          *)
(* junk.vs_attribs[i] for other.vs_attribs[i] past the end of the list,     *)
(* junk.bit for other.bitset[b] with b >= MaxStageResources.                *)
(***************************************************************************)
\* other.vs_attribs[i]
OtherVsAttrib(other, i, junk) ==
    IF i <= Len(other.vs_attribs) THEN other.vs_attribs[i] ELSE junk.vs_attribs[i]

\* for (u32 i = 0; i < vs_attribs.size(); i++)
RECURSIVE VsAttribLoop(_, _, _, _)
VsAttribLoop(this, other, i, junk) ==
    IF i > Len(this.vs_attribs) THEN [ok |-> TRUE, oob |-> FALSE]
    ELSE LET past == i > Len(other.vs_attribs)
         IN  IF ~VsAttribEq(this.vs_attribs[i], OtherVsAttrib(other, i, junk))
             THEN [ok |-> FALSE, oob |-> past]
             ELSE LET rest == VsAttribLoop(this, other, i + 1, junk)
                  IN  [ok |-> rest.ok, oob |-> past \/ rest.oob]

\* a comparison gated on the bitset of the candidate: bitset[binding]
OtherBitOfThis(this, other, binding, junk) ==
    IF binding < MaxStageResources THEN binding \in this.bitset
    ELSE junk.bit

\* other.bitset[binding]
OtherBit(this, other, binding, junk) ==
    IF binding < MaxStageResources THEN binding \in other.bitset
    ELSE junk.bit

\* binding++ of other.bitset[binding++]
GateBinding(binding) == binding + 1

\* for (u32 i = 0; i < xs.size(); i++)
\*     if (other.bitset[binding++] && xs[i] != ys[i]) return false;
\* st = [ok, binding]; the bitset indices read are those below st.binding
RECURSIVE GatedLoop(_, _, _, _, _, _, _, _)
GatedLoop(kind, this, other, xs, ys, st, i, junk) ==
    IF ~st.ok \/ i > Len(xs) THEN st
    ELSE LET bit == OtherBit(this, other, st.binding, junk)
             st1 == [st EXCEPT !.binding = GateBinding(st.binding)]
         IN  IF bit /\ ~RecordEq(kind, xs[i], ys[i])
             THEN [st1 EXCEPT !.ok = FALSE]
             ELSE GatedLoop(kind, this, other, xs, ys, st1, i + 1, junk)

\* a sampler loop gated like the loops of the tracked categories, on the
\* indices that follow those of the fmasks
RECURSIVE SamplerLoopGated(_, _, _)
SamplerLoopGated(this, other, i) ==
    IF i > Len(this.samplers) THEN TRUE
    ELSE IF /\ (FirstBinding(this.info) + Len(this.buffers)
                + Len(this.tex_buffers) + Len(this.images) + Len(this.fmasks)
                + (i - 1)) \in other.bitset
            /\ ~(this.samplers[i].force_unnormalized
                    = other.samplers[i].force_unnormalized)
    THEN FALSE
    ELSE SamplerLoopGated(this, other, i + 1)

\* for (u32 i = 0; i < samplers.size(); i++)
\*     if (samplers[i] != other.samplers[i]) return false;
RECURSIVE SamplerLoop(_, _, _)
SamplerLoop(this, other, i) ==
    IF i > Len(this.samplers) THEN TRUE
    ELSE IF ~SamplerEq(this.samplers[i], other.samplers[i]) THEN FALSE
    ELSE SamplerLoop(this, other, i + 1)

\* a comparison of runtime_info that leaves the tessellation sub-records out
RuntimeInfoEqTopology(a, b) == a.topology = b.topology

\* !(runtime_info != other.runtime_info)
RuntimeInfoEq(a, b) == a = b

\* the outcome of one comparison
Outcome(equal, reads, vs_oob) ==
    [equal |-> equal, reads |-> reads, vs_oob |-> vs_oob]

\* this == other: the result, the bitset indices of other it read, and
\* whether it read other.vs_attribs past its end
Equal(this, other, junk) ==
    IF this.start # other.start THEN Outcome(FALSE, {}, FALSE)
    ELSE IF ~RuntimeInfoEq(this.runtime_info, other.runtime_info)
    THEN Outcome(FALSE, {}, FALSE)
    ELSE IF this.fetch_shader_data # other.fetch_shader_data
    THEN Outcome(FALSE, {}, FALSE)
    ELSE LET vs == VsAttribLoop(this, other, 1, junk)
         IN  IF ~vs.ok THEN Outcome(FALSE, {}, vs.oob)
             ELSE IF this.info.has_readconst # other.info.has_readconst
             THEN Outcome(FALSE, {}, vs.oob)
             ELSE LET s0 == [ok |-> TRUE, binding |-> FirstBinding(this.info)]
                      s1 == GatedLoop("buffer", this, other, this.buffers,
                                      other.buffers, s0, 1, junk)
                      s2 == GatedLoop("tex_buffer", this, other, this.tex_buffers,
                                      other.tex_buffers, s1, 1, junk)
                      s3 == GatedLoop("image", this, other, this.images,
                                      other.images, s2, 1, junk)
                      s4 == GatedLoop("fmask", this, other, this.fmasks,
                                      other.fmasks, s3, 1, junk)
                      reads == s0.binding..(s4.binding - 1)
                  IN  IF ~s4.ok THEN Outcome(FALSE, reads, vs.oob)
                      ELSE Outcome(SamplerLoop(this, other, 1), reads, vs.oob)

(***************************************************************************)
(* The inputs: providers, runtime configurations, profiles, start          *)
(* bindings and the sharps the descriptors resolve to.                     *)
(***************************************************************************)
\* (stage, logical stage) of a provider
StagePairs ==
    { <<"Fragment", "Fragment">>, <<"Vertex", "Vertex">>, <<"Export", "Vertex">>,
      <<"Hull", "TessellationControl">>, <<"Vertex", "TessellationEval">> }

\* the descriptors of a shape that own a bitset index
Tracked(shape) ==
    shape.buffers + shape.texture_buffers + shape.images + shape.fmasks

\* all descriptors of a shape
Descs(shape) == Tracked(shape) + shape.samplers + shape.attribs

\* the shape of a provider: its stage and the lengths of its descriptor
\* lists; only a vertex shader (stage Vertex or Export) has a fetch shader
IsShape(s) ==
    /\ s.has_fetch_shader => s.stages[2] = "Vertex"
    /\ ~s.has_fetch_shader => s.attribs = 0

\* whether the shape is of a tessellation stage or of a vertex shader that
\* runs as an export stage
Staged(s) == s.stages \notin {<<"Fragment", "Fragment">>, <<"Vertex", "Vertex">>}

\* small providers; a tessellation or export stage counts as one descriptor
SmallShapes ==
    { s \in [stages : StagePairs, has_fetch_shader : BOOLEAN,
             attribs : 0..MaxDescs, buffers : 0..MaxDescs,
             texture_buffers : 0..MaxDescs, images : 0..MaxDescs,
             fmasks : 0..MaxDescs, samplers : 0..MaxDescs] :
        /\ IsShape(s)
        /\ Descs(s) + (IF Staged(s) THEN 1 ELSE 0) <= MaxDescs
        /\ s.stages[2] = "Vertex" => s.has_fetch_shader }

\* providers whose tracked slots are at, or CapSlack short of, the capacity
\* of the bitset
CapShapes ==
    { [stages |-> <<"Fragment", "Fragment">>, has_fetch_shader |-> FALSE,
       attribs |-> 0, buffers |-> n - 3, texture_buffers |-> 1, images |-> 1,
       fmasks |-> 1, samplers |-> 0] :
        n \in (MaxStageResources - CapSlack)..MaxStageResources }

\* Gcn::FetchShaderData of the provider's fetch shader
FetchShaderData(shape, variant) ==
    IF shape.has_fetch_shader
    THEN [attributes |-> shape.attribs, vertex_offset_sgpr |-> variant]
    ELSE Null

\* the Shader::Info of a shape
Info(shape, has_readconst, variant) ==
    [stage |-> shape.stages[1], l_stage |-> shape.stages[2],
     has_readconst |-> has_readconst, fetch |-> FetchShaderData(shape, variant),
     buffers |-> shape.buffers, texture_buffers |-> shape.texture_buffers,
     images |-> shape.images, fmasks |-> shape.fmasks, samplers |-> shape.samplers]

\* the binding slots a provider has the bitset track
Slots(info) ==
    FirstBinding(info) + info.buffers + info.texture_buffers + info.images
    + info.fmasks

\* the number of tracked slots of a provider never exceeds the capacity of
\* the bitset
WithinCapacity(info) == Slots(info) <= MaxStageResources

\* RuntimeInfo before the constructor's tessellation step
RuntimeInfo(cfg) ==
    [topology |-> IF cfg = 0 THEN "TriangleList" ELSE "PointList",
     hs_info |-> NoTessInfo, vs_info |-> NoTessInfo]

\* Backend::Bindings
Bindings(n) == [unified |-> n, buffer |-> n, user_data |-> n]

\* Profile
Profiles == [support_legacy_vertex_attributes : BOOLEAN]

\* the scalar inputs of one Build
Scalars(shape) ==
    { k \in [readconst : 0..1, variant : 0..1, cfg : 0..1, start : 0..1,
             tess : 0..1] :
        /\ k.readconst + k.variant + k.cfg + k.start + k.tess <= MaxVaried
        /\ ~shape.has_fetch_shader => k.variant = 0
        /\ shape.stages[2] \notin {"TessellationControl", "TessellationEval"}
               => k.tess = 0
        /\ WithinCapacity(Info(shape, k.readconst = 1, k.variant)) }

\* sequences of length n over S
Tuples(S, n) == [1..n -> S]

\* the sharp a descriptor of each category resolves to in a large provider
BaseSharp(kind) ==
    CASE kind = "buffer" -> [stride |-> 16, size |-> 1024, storage |-> FALSE]
      [] kind = "tex_buffer" ->
             [fmt |-> "Unorm", dst_select |-> "RGBA", num_conversion |-> 0]
      [] kind = "image" ->
             [type |-> "Color2D", fmt |-> "Unorm", storage |-> TRUE,
              dst_select |-> "BGRA", num_conversion |-> 0]
      [] kind = "fmask" -> [width |-> 1, height |-> 1]

\* the tracked positions 1..n that resolve, in a large provider
ResolvedPatterns(n) == { {}, 1..n, {n}, {1}, 1..(n - 1) }

\* the sharps of a large provider whose resolved tracked positions are R
PatternTable(shape, R) ==
    LET b == shape.buffers
        t == b + shape.texture_buffers
        m == t + shape.images
        At(kind, k) == IF k \in R THEN BaseSharp(kind) ELSE Null
    IN  [attribs |-> << >>,
         buffers |-> [i \in 1..shape.buffers |-> At("buffer", i)],
         texture_buffers |-> [i \in 1..shape.texture_buffers |-> At("tex_buffer", b + i)],
         images |-> [i \in 1..shape.images |-> At("image", t + i)],
         fmasks |-> [i \in 1..shape.fmasks |-> At("fmask", m + i)],
         samplers |-> << >>]

\* what the descriptors of a provider resolve to at the time of one Build
SharpTables(shape) ==
    IF shape \in SmallShapes
    THEN [attribs : Tuples(AttribSharps \cup {Null}, shape.attribs),
          buffers : Tuples(BufferSharps \cup {Null}, shape.buffers),
          texture_buffers : Tuples(TexBufferSharps \cup {Null}, shape.texture_buffers),
          images : Tuples(ImageSharps \cup {Null}, shape.images),
          fmasks : Tuples(FMaskSharps \cup {Null}, shape.fmasks),
          samplers : Tuples(SamplerSharps \cup {Null}, shape.samplers)]
    ELSE { PatternTable(shape, R) : R \in ResolvedPatterns(Tracked(shape)) }

\* the tessellation constant buffer info->ReadTessConstantBuffer reads
TessConstants(k) == IF k.tess = 0 THEN "tess_a" ELSE "tess_b"

\* the construction of one key from the chosen inputs
BuildFrom(shape, k, profile, sh) ==
    Build(Info(shape, k.readconst = 1, k.variant), RuntimeInfo(k.cfg), profile,
          Bindings(k.start),
          [attribs |-> sh.attribs, buffers |-> sh.buffers,
           texture_buffers |-> sh.texture_buffers, images |-> sh.images,
           fmasks |-> sh.fmasks, samplers |-> sh.samplers,
           tess |-> TessConstants(k)])

(***************************************************************************)
(* The state: the provider shape, the cached key and the candidate key,     *)
(* the sharps each was built from, the outcome of the last                  *)
(* candidate == cached, and whether a construction threw.                   *)
(***************************************************************************)
VARIABLES shape, cached, cachedSharps, candidate, candSharps, result, fault

vars == <<shape, cached, cachedSharps, candidate, candSharps, result, fault>>

\* no comparison since the last construction
NoResult == [none |-> TRUE]

\* AmdGpu::NumberClass
VsAttribRecords == { [num_class |-> c] : c \in {"Float", "Sint", "Uint"} }

\* what the undefined reads of candidate == cached may yield
Junks(this, other) ==
    [vs_attribs : [(Len(other.vs_attribs) + 1)..Len(this.vs_attribs) -> VsAttribRecords],
     bit : IF Slots(this.info) > MaxStageResources THEN BOOLEAN ELSE {FALSE}]

\* nothing is built yet, for a provider of the given shapes
InitOf(shapes) ==
    /\ shape \in shapes
    /\ cached = NoSpec
    /\ cachedSharps = Null
    /\ candidate = NoSpec
    /\ candSharps = Null
    /\ result = NoResult
    /\ fault = "none"

\* small providers
Init == InitOf(SmallShapes)

\* providers at the capacity of the bitset
InitCap == InitOf(CapShapes)

\* the cache builds the key of the first permutation it compiles
BuildCached ==
    /\ cached = NoSpec
    /\ \E k \in Scalars(shape), profile \in Profiles, sh \in SharpTables(shape) :
        LET b == BuildFrom(shape, k, profile, sh)
        IN  IF b.thrown
            THEN /\ fault' = "out_of_range"
                 /\ UNCHANGED <<shape, cached, cachedSharps, candidate,
                                candSharps, result>>
            ELSE /\ cached' = b.spec
                 /\ cachedSharps' = sh
                 /\ result' = NoResult
                 /\ UNCHANGED <<shape, candidate, candSharps, fault>>

\* a dispatch builds the key of the state it is about to run with
BuildCandidate ==
    /\ cached # NoSpec
    /\ candidate = NoSpec
    /\ \E k \in Scalars(shape), profile \in Profiles, sh \in SharpTables(shape) :
        LET b == BuildFrom(shape, k, profile, sh)
        IN  IF b.thrown
            THEN /\ fault' = "out_of_range"
                 /\ UNCHANGED <<shape, cached, cachedSharps, candidate,
                                candSharps, result>>
            ELSE /\ candidate' = b.spec
                 /\ candSharps' = sh
                 /\ result' = NoResult
                 /\ UNCHANGED <<shape, cached, cachedSharps, fault>>

\* the cache looks the candidate up: candidate == cached
Compare ==
    /\ candidate # NoSpec
    /\ result = NoResult
    /\ \E junk \in Junks(candidate, cached) :
           result' = Equal(candidate, cached, junk)
    /\ UNCHANGED <<shape, cached, cachedSharps, candidate, candSharps, fault>>

\* a hit: the dispatch runs the cached permutation and drops its key
Hit ==
    /\ result # NoResult
    /\ result.equal
    /\ candidate' = NoSpec
    /\ candSharps' = Null
    /\ result' = NoResult
    /\ UNCHANGED <<shape, cached, cachedSharps, fault>>

\* a miss: a new permutation is compiled and the candidate becomes its key
Miss ==
    /\ result # NoResult
    /\ ~result.equal
    /\ cached' = candidate
    /\ cachedSharps' = candSharps
    /\ candidate' = NoSpec
    /\ candSharps' = Null
    /\ result' = NoResult
    /\ UNCHANGED <<shape, fault>>

Next == BuildCached \/ BuildCandidate \/ Compare \/ Hit \/ Miss

Spec == Init /\ [][Next]_vars

SpecCap == InitCap /\ [][Next]_vars

(***************************************************************************)
(* Vocabulary of the properties.                                           *)
(***************************************************************************)
\* the categories the bitset tracks, in the order of construction
TrackedKinds == {"buffer", "tex_buffer", "image", "fmask"}

\* the list of a key that holds the records of a category
ListOf(spec, kind) ==
    CASE kind = "buffer" -> spec.buffers
      [] kind = "tex_buffer" -> spec.tex_buffers
      [] kind = "image" -> spec.images
      [] kind = "fmask" -> spec.fmasks

\* the sharps of a category in a table of sharps
SharpsOf(sh, kind) ==
    CASE kind = "buffer" -> sh.buffers
      [] kind = "tex_buffer" -> sh.texture_buffers
      [] kind = "image" -> sh.images
      [] kind = "fmask" -> sh.fmasks

\* the number of descriptors that precede a category in the concatenation
\* buffers, texture buffers, images, fmasks
Before(spec, kind) ==
    CASE kind = "buffer" -> 0
      [] kind = "tex_buffer" -> Len(spec.buffers)
      [] kind = "image" -> Len(spec.buffers) + Len(spec.tex_buffers)
      [] kind = "fmask" ->
             Len(spec.buffers) + Len(spec.tex_buffers) + Len(spec.images)

\* r + k: the bitset index of the i-th descriptor of a category
IndexOf(spec, kind, i) ==
    (IF spec.info.has_readconst THEN 1 ELSE 0) + Before(spec, kind) + (i - 1)

\* the tracked slots of a key
SlotsOf(spec) ==
    UNION { { <<kind, i>> : i \in 1..Len(ListOf(spec, kind)) } :
                kind \in TrackedKinds }

\* all tracked descriptors of a key
TrackedCount(spec) ==
    Len(spec.buffers) + Len(spec.tex_buffers) + Len(spec.images) + Len(spec.fmasks)

\* the sharps a descriptor of a category may resolve to
SharpsOfKind(kind) ==
    CASE kind = "buffer" -> BufferSharps
      [] kind = "tex_buffer" -> TexBufferSharps
      [] kind = "image" -> ImageSharps
      [] kind = "fmask" -> FMaskSharps

\* the records a slot of a category may hold after construction
RecordsOfKind(kind) ==
    {DefaultSpec(kind)}
    \cup { Fill(kind, DefaultSpec(kind), sharp) : sharp \in SharpsOfKind(kind) }

\* a key with the record of one slot, and the bit of that slot, replaced
Replaced(spec, kind, i, rec, bit) ==
    LET b == IndexOf(spec, kind, i)
        bits == IF bit THEN spec.bitset \cup {b} ELSE spec.bitset \ {b}
        s1 == [spec EXCEPT !.bitset = bits]
    IN  CASE kind = "buffer" -> [s1 EXCEPT !.buffers[i] = rec]
          [] kind = "tex_buffer" -> [s1 EXCEPT !.tex_buffers[i] = rec]
          [] kind = "image" -> [s1 EXCEPT !.images[i] = rec]
          [] kind = "fmask" -> [s1 EXCEPT !.fmasks[i] = rec]

\* both keys are built
Both == cached # NoSpec /\ candidate # NoSpec

\* candidate == cached has been evaluated on the keys of the state
Compared == result # NoResult

\* no read of the comparison is undefined
NoJunk == [vs_attribs |-> << >>, bit |-> FALSE]

\* the fields that are compared before the gated loops, and the samplers
UngatedAgree(a, b) ==
    /\ a.start = b.start
    /\ a.runtime_info = b.runtime_info
    /\ a.fetch_shader_data = b.fetch_shader_data
    /\ a.vs_attribs = b.vs_attribs
    /\ a.info.has_readconst = b.info.has_readconst
    /\ a.samplers = b.samplers

(***************************************************************************)
(* C1 - validity gating.                                                   *)
(***************************************************************************)
\* C1: when start, runtime_info, fetch_shader_data, vs_attribs, read-constant
\* presence and samplers of candidate and cached agree, then for every
\* tracked slot whose bit is unset in the cached key, candidate == cached is
\* the same whatever record the candidate holds at the slot and whether or
\* not the candidate's own bit is set; the comparison of the state is that
\* value.
C1_ValidityGating ==
    (Both /\ UngatedAgree(candidate, cached)) =>
        /\ \A slot \in SlotsOf(cached) :
               IndexOf(cached, slot[1], slot[2]) \notin cached.bitset =>
                   \A rec \in RecordsOfKind(slot[1]), bit \in BOOLEAN :
                       Equal(Replaced(candidate, slot[1], slot[2], rec, bit),
                             cached, NoJunk).equal
                           = Equal(candidate, cached, NoJunk).equal
        /\ Compared => result.equal = Equal(candidate, cached, NoJunk).equal

\* Scenario 1: the cached key left its one buffer unresolved, the candidate
\* resolved it with stride 16, size 1024, not storage, and they compared equal
C1_Witness ==
    /\ Compared
    /\ UngatedAgree(candidate, cached)
    /\ Len(cached.buffers) = 1
    /\ cached.bitset = {}
    /\ cached.buffers[1] = DefaultBuffer
    /\ candidate.buffers[1] = [stride |-> 16, is_storage |-> 0, size |-> 1024]
    /\ IndexOf(candidate, "buffer", 1) \in candidate.bitset
    /\ result.equal

(***************************************************************************)
(* C2 - validity gating, inverse.                                          *)
(***************************************************************************)
\* the records of candidate and cached at a slot are identical in every field
SameRecord(kind, i) == ListOf(candidate, kind)[i] = ListOf(cached, kind)[i]

\* C2 (original statement): if candidate == cached is true, the candidate's record is
\* identical, in every field, to the cached record at every slot whose bit is
\* set in the cached key.
C2_Original ==
    (Compared /\ result.equal) =>
        \A slot \in SlotsOf(cached) :
            IndexOf(cached, slot[1], slot[2]) \in cached.bitset =>
                SameRecord(slot[1], slot[2])

\* C2 (amended): if candidate == cached is true then, at every slot whose bit
\* is set in the cached key, the candidate's record matches the cached one
\* under the equality of its type: stride and is_storage identical for a
\* buffer (size is not compared), every field identical for a texture
\* buffer, an image and an fmask.
C2_GatingInverse ==
    (Compared /\ result.equal) =>
        \A slot \in SlotsOf(cached) :
            IndexOf(cached, slot[1], slot[2]) \in cached.bitset =>
                IF slot[1] = "buffer"
                THEN /\ candidate.buffers[slot[2]].stride
                            = cached.buffers[slot[2]].stride
                     /\ candidate.buffers[slot[2]].is_storage
                            = cached.buffers[slot[2]].is_storage
                ELSE SameRecord(slot[1], slot[2])

\* the cached key resolved a buffer and an image; the candidate holds the
\* same image record and a buffer record of another size, and compared equal
C2_Witness ==
    /\ Compared
    /\ result.equal
    /\ Len(cached.buffers) = 1
    /\ Len(cached.images) = 1
    /\ cached.bitset = {IndexOf(cached, "buffer", 1), IndexOf(cached, "image", 1)}
    /\ candidate.buffers[1].size # cached.buffers[1].size
    /\ cached.images[1].is_storage
    /\ cached.images[1].dst_select # DefaultMapping
    /\ SameRecord("image", 1)

(***************************************************************************)
(* C3 - the fields a hash of the key may cover.                            *)
(***************************************************************************)
\* the shorter length of the two vs_attribs lists
CommonAttribs ==
    IF Len(candidate.vs_attribs) <= Len(cached.vs_attribs)
    THEN Len(candidate.vs_attribs) ELSE Len(cached.vs_attribs)

C4_Reflexivity ==
    /\ cached # NoSpec =>
           /\ Equal(cached, cached, NoJunk).equal
           /\ ~Equal(cached, cached, NoJunk).vs_oob
    /\ candidate # NoSpec =>
           /\ Equal(candidate, candidate, NoJunk).equal
           /\ ~Equal(candidate, candidate, NoJunk).vs_oob
    /\ (Compared /\ candidate = cached) => (result.equal /\ ~result.vs_oob)

\* a key with a resolved buffer of size 0 and an unresolved slot was compared
\* with itself
C4_Witness ==
    /\ Compared
    /\ candidate = cached
    /\ result.equal
    /\ Len(cached.buffers) = 2
    /\ cached.bitset = {IndexOf(cached, "buffer", 2)}
    /\ cached.buffers[2] = [stride |-> 16, is_storage |-> 0, size |-> 0]

(***************************************************************************)
(* C5 - buffer records: stride decides, size does not.                     *)
(***************************************************************************)
\* values of BufferSpecialization
BufferRecords ==
    [stride : {0, 16, 32, 2 ^ StrideBits - 1}, is_storage : {0, 1},
     size : {0, 1, 1024}]

\* the i-th buffer resolved in both keys
BufferInBoth(i) ==
    /\ IndexOf(cached, "buffer", i) \in cached.bitset
    /\ IndexOf(candidate, "buffer", i) \in candidate.bitset

\* the two keys were built from the same sharps but for one tracked slot
SharpsAgreeExcept(kind, i) ==
    /\ candSharps.attribs = cachedSharps.attribs
    /\ candSharps.samplers = cachedSharps.samplers
    /\ \A slot \in SlotsOf(cached) :
           slot # <<kind, i>> =>
               SharpsOf(candSharps, slot[1])[slot[2]]
                   = SharpsOf(cachedSharps, slot[1])[slot[2]]

\* stride and is_storage of two buffer records are the same
SameStrideAndStorage(a, b) == a.stride = b.stride /\ a.is_storage = b.is_storage

\* C5: a == b on buffer records holds exactly when stride and is_storage are
\* the same, whatever the sizes.  So for a buffer resolved in both keys, a
\* different stride makes candidate == cached false, and a slot that differs
\* in size only, all else being the same, leaves it true.  (All pairs of
\* values are compared before a key exists; the records of the cached key
\* are compared with every value afterwards.)
C5_BufferEquality ==
    /\ cached = NoSpec =>
           \A a \in BufferRecords, b \in BufferRecords :
               BufferEq(a, b) <=> SameStrideAndStorage(a, b)
    /\ cached # NoSpec =>
           \A i \in 1..Len(cached.buffers), b \in BufferRecords :
               /\ BufferEq(b, cached.buffers[i])
                      <=> SameStrideAndStorage(b, cached.buffers[i])
               /\ BufferEq(cached.buffers[i], b)
                      <=> SameStrideAndStorage(cached.buffers[i], b)
    /\ Compared =>
           \A i \in 1..Len(cached.buffers) :
               BufferInBoth(i) =>
                   /\ candidate.buffers[i].stride # cached.buffers[i].stride
                          => ~result.equal
                   /\ ( /\ UngatedAgree(candidate, cached)
                        /\ SharpsAgreeExcept("buffer", i)
                        /\ candidate.buffers[i].stride = cached.buffers[i].stride
                        /\ candidate.buffers[i].is_storage
                               = cached.buffers[i].is_storage )
                          => result.equal

\* a buffer resolved in both keys with the same stride, not storage, sizes
\* 1024 and 0, all else the same: the keys compared equal
C5_Witness ==
    /\ Compared
    /\ UngatedAgree(candidate, cached)
    /\ Len(cached.buffers) >= 1
    /\ BufferInBoth(1)
    /\ SharpsAgreeExcept("buffer", 1)
    /\ cached.buffers[1] = [stride |-> 16, is_storage |-> 0, size |-> 1024]
    /\ candidate.buffers[1] = [stride |-> 16, is_storage |-> 0, size |-> 0]
    /\ result.equal

(***************************************************************************)
(* C6 - the destination mapping of an image counts only for storage.       *)
(***************************************************************************)
\* the i-th image resolved, for both keys, to hardware records that differ
\* in the destination mapping and in nothing else the builder reads
MappingAlone(i) ==
    /\ cachedSharps.images[i] # Null
    /\ candSharps.images[i] # Null
    /\ candSharps.images[i].dst_select # cachedSharps.images[i].dst_select
    /\ candSharps.images[i]
           = [cachedSharps.images[i] EXCEPT !.dst_select = candSharps.images[i].dst_select]

\* C6: Build copies the destination mapping of the hardware record into an
\* image record only when the descriptor is bound as storage, and leaves the
\* default otherwise.  So for an image resolved in both keys with hardware
\* records that differ in the mapping alone, candidate == cached is false
\* when the image is storage; when it is not storage the two records are
\* identical and, all else being the same, candidate == cached is true.
C6_ImageMapping ==
    /\ cached # NoSpec =>
           \A i \in 1..Len(cached.images) :
               cachedSharps.images[i] # Null =>
                   cached.images[i].dst_select
                       = IF cachedSharps.images[i].storage
                         THEN cachedSharps.images[i].dst_select
                         ELSE DefaultMapping
    /\ Compared =>
           \A i \in 1..Len(cached.images) :
               MappingAlone(i) =>
                   IF cachedSharps.images[i].storage
                   THEN ~result.equal
                   ELSE /\ candidate.images[i] = cached.images[i]
                        /\ ( UngatedAgree(candidate, cached)
                             /\ SharpsAgreeExcept("image", i) ) => result.equal

\* Scenario 4: one image, not storage, resolved by both keys to hardware
\* records of different mappings, compared equal
C6_Witness ==
    /\ Compared
    /\ Len(cached.images) = 1
    /\ MappingAlone(1)
    /\ ~cachedSharps.images[1].storage
    /\ UngatedAgree(candidate, cached)
    /\ result.equal

(***************************************************************************)
(* C7 - samplers are compared unconditionally.                             *)
(***************************************************************************)
\* the bits of a key lie among the indices of its tracked descriptors
BitsAreTracked(spec) ==
    \A b \in spec.bitset :
        /\ b >= (IF spec.info.has_readconst THEN 1 ELSE 0)
        /\ b < (IF spec.info.has_readconst THEN 1 ELSE 0) + TrackedCount(spec)

\* C7: if force_unnormalized differs at any sampler index, candidate ==
\* cached is false, whatever the bitsets hold; and the samplers of a key own
\* no bitset index: every bit set, and every bit read, is the index of a
\* buffer, texture buffer, image or fmask.
C7_SamplerStrictness ==
    /\ Compared =>
           /\ (\E i \in 1..Len(cached.samplers) :
                   candidate.samplers[i].force_unnormalized
                       # cached.samplers[i].force_unnormalized)
                  => ~result.equal
           /\ \A b \in result.reads :
                  b < (IF cached.info.has_readconst THEN 1 ELSE 0)
                          + TrackedCount(cached)
    /\ cached # NoSpec => BitsAreTracked(cached)
    /\ candidate # NoSpec => BitsAreTracked(candidate)

\* two keys that differ in the one sampler alone, with a tracked slot that
\* neither resolved: compared unequal
C7_Witness ==
    /\ Compared
    /\ Len(cached.samplers) = 1
    /\ Len(cached.buffers) = 1
    /\ candidate.samplers[1].force_unnormalized
    /\ ~cached.samplers[1].force_unnormalized
    /\ cached.bitset = {}
    /\ candidate = [cached EXCEPT !.samplers = candidate.samplers]
    /\ ~result.equal

(***************************************************************************)
(* C8 - the shared sequential binding index.                               *)
(***************************************************************************)
\* a list of records has one record per descriptor, the default one for
\* every descriptor that did not resolve
OnePerDescriptor(kind, list, sharps) ==
    /\ Len(list) = Len(sharps)
    /\ \A i \in 1..Len(sharps) : sharps[i] = Null => list[i] = DefaultSpec(kind)

\* a key built from the sharps sh has the bitset and the lists C8 describes
BuiltAsIndexed(spec, sh) ==
    /\ \A kind \in TrackedKinds :
           OnePerDescriptor(kind, ListOf(spec, kind), SharpsOf(sh, kind))
    /\ \A slot \in SlotsOf(spec) :
           IndexOf(spec, slot[1], slot[2]) \in spec.bitset
               <=> SharpsOf(sh, slot[1])[slot[2]] # Null
    /\ \A b \in spec.bitset :
           \E slot \in SlotsOf(spec) : b = IndexOf(spec, slot[1], slot[2])
    /\ OnePerDescriptor("sampler", spec.samplers, sh.samplers)
    /\ spec.vs_attribs # << >> =>
           OnePerDescriptor("vs_attrib", spec.vs_attribs, sh.attribs)

\* C8: after Build, with r = 1 if the provider declares a read-constant
\* resource and 0 otherwise, the descriptor at position k of buffers,
\* texture buffers, images, fmasks owns bitset index r + k; the bit is set
\* exactly when the descriptor resolved; no other bit is set (not index 0
\* when r = 1, no index from r + the number of descriptors on, none for a
\* vertex attribute or a sampler); every list has one record per descriptor
\* and the record of an unresolved descriptor is the default one.
C8_BindingIndex ==
    /\ cached # NoSpec => BuiltAsIndexed(cached, cachedSharps)
    /\ candidate # NoSpec => BuiltAsIndexed(candidate, candSharps)

\* a provider with a read-constant resource, an unresolved buffer and a
\* resolved image: the bitset is {2}
C8_Witness ==
    /\ cached # NoSpec
    /\ cached.info.has_readconst
    /\ Len(cached.buffers) = 1
    /\ Len(cached.images) = 1
    /\ cachedSharps.buffers[1] = Null
    /\ cachedSharps.images[1] # Null
    /\ cached.bitset = {2}

(***************************************************************************)
(* C9 - the capacity of the bitset.                                        *)
(***************************************************************************)
\* the indices of std::bitset<MaxStageResources>
BitsetIndices == 0..(MaxStageResources - 1)

\* a key tracks no more slots than the bitset holds and sets no bit outside
WithinBitset(spec) ==
    /\ Slots(spec.info) <= MaxStageResources
    /\ (IF spec.info.has_readconst THEN 1 ELSE 0) + TrackedCount(spec)
           = Slots(spec.info)
    /\ spec.bitset \subseteq BitsetIndices

C10_Original ==
    ( /\ Compared
      /\ candidate.info = cached.info
      /\ candidate.runtime_info = cached.runtime_info
      /\ candidate.start = cached.start ) =>
        /\ result.equal => candidate.vs_attribs = cached.vs_attribs
        /\ ~result.vs_oob

=============================================================================
